---- MODULE Spec2Model ----
(***************************************************************************)
(* synthnn: the U-Net builder (synthnn/models/unet.py) and the training    *)
(* driver that constructs and runs it (synthnn/exec/fa_train.py).          *)
(*                                                                         *)
(* A tensor is abstracted to its shape [n, c, *sp]; a block to the         *)
(* parameters that decide shapes and parameters (channels, kernel, stride, *)
(* padding, bias, normalization). Activations, dropout and the             *)
(* interpolation mode change values, not shapes, and are left out.         *)
(* Python values that are not integers are strings: None is "None", the    *)
(* booleans are "True" and "False".                                        *)
(*                                                                         *)
(* main is followed step by step; learner.fit is one call of               *)
(* Unet.forward on one batch, followed statement group by statement group. *)
(* ops records, in order, every call forward makes on its tensors.         *)
(***************************************************************************)
EXTENDS Integers, Sequences, FiniteSets, TLC

\* ---------------------------------------------------------------- bounds
MaxL == 3      \* n_layers ranges over 1..MaxL
MaxK == 3      \* kernel_size ranges over 1..MaxK
MaxCBP == 1    \* channel_base_power ranges over 0..MaxCBP
MaxS == 8      \* every spatial dimension of an input ranges over 1..MaxS

\* ------------------------------------------------------- program constants
BatchSize == 32   \* --batch-size default
NoneK == 0        \* kernel_sz=None (Optional[int] default of __conv, __conv_act)

\* ------------------------------------------------------------ python values
None == "None"
Truthy(v) == v \notin {"False", "", None}

RECURSIVE Pow2(_)
Pow2(n) == IF n <= 0 THEN 1 ELSE 2 * Pow2(n - 1)

\* range(a, b) as a sequence; reversed(seq)
Range(a, b) == [k \in 1..(IF b > a THEN b - a ELSE 0) |-> a + k - 1]
Reversed(s) == [k \in 1..Len(s) |-> s[Len(s) + 1 - k]]
\* python indexing: list[i] for i >= 0, list[-i] for i >= 1
InRange(s, i) == 0 <= i /\ i < Len(s)
At(s, i) == s[i + 1]
FromEnd(s, i) == s[Len(s) + 1 - i]

\* ------------------------------------------------------------------ tensors
Tensor(n, c, sp) == [ok |-> TRUE, n |-> n, c |-> c, sp |-> sp]
\* the value of an expression that raised
Raised == [ok |-> FALSE, n |-> 0, c |-> 0, sp |-> <<>>]
NoTensor == Raised

\* ------------------------------------------------------------- Unet.__init__
\* lc as the class docstring words it: "2 ** channel_base_power + n"
lc_docstring(cfg, n) == Pow2(cfg.channel_base_power) + n

\* def lc(n)
lc(cfg, n) == Pow2(cfg.channel_base_power + n)

\* __conv accepting the mode names its error message lists, {downconv, upconv}
conv_message_modes(cfg, in_c, out_c, kernel_sz, mode) ==
    LET ksz == IF kernel_sz = NoneK THEN cfg.kernel_sz ELSE kernel_sz
        stride == IF mode = None THEN 1 ELSE 2
        bias == IF cfg.norm # "none" THEN FALSE ELSE TRUE
    IN  IF mode = None \/ mode = "downconv"
        THEN [op |-> "conv", in_c |-> in_c, out_c |-> out_c, ksz |-> ksz,
              stride |-> stride, bias |-> bias, pad |-> ksz \div 2,
              padding |-> IF Truthy(cfg.is_3d) THEN "replication" ELSE "reflection"]
        ELSE IF mode = "upconv"
        THEN [op |-> "convT", in_c |-> in_c, out_c |-> out_c, ksz |-> ksz,
              stride |-> stride, bias |-> bias, pad |-> 0, padding |-> None]
        ELSE [op |-> "SynthNNError", in_c |-> in_c, out_c |-> out_c, ksz |-> ksz,
              stride |-> stride, bias |-> bias, pad |-> 0, padding |-> None]

\* Unet.__conv: the padding and the convolution of one primitive block
conv(cfg, in_c, out_c, kernel_sz, mode) ==
    LET ksz == IF kernel_sz = NoneK THEN cfg.kernel_sz ELSE kernel_sz
        stride == IF mode = None THEN 1 ELSE 2
        bias == IF cfg.norm # "none" THEN FALSE ELSE TRUE
    IN  IF mode = None \/ mode = "down"
        THEN [op |-> "conv", in_c |-> in_c, out_c |-> out_c, ksz |-> ksz,
              stride |-> stride, bias |-> bias, pad |-> ksz \div 2,
              padding |-> IF Truthy(cfg.is_3d) THEN "replication" ELSE "reflection"]
        ELSE IF mode = "up"
        THEN [op |-> "convT", in_c |-> in_c, out_c |-> out_c, ksz |-> ksz,
              stride |-> stride, bias |-> bias, pad |-> 0, padding |-> None]
        ELSE [op |-> "SynthNNError", in_c |-> in_c, out_c |-> out_c, ksz |-> ksz,
              stride |-> stride, bias |-> bias, pad |-> 0, padding |-> None]

\* Unet.__conv_act: conv, normalization (unless get_norm gives None), activation, dropout
conv_act(cfg, in_c, out_c, kernel_sz, norm, mode) ==
    LET ksz == IF kernel_sz = NoneK THEN cfg.kernel_sz ELSE kernel_sz
    IN  [c |-> conv(cfg, in_c, out_c, ksz, mode),
         norm |-> IF norm # None THEN norm ELSE "instance"]

\* Unet.__dbl_conv_act
dbl_conv_act(cfg, in_c, mid_c, out_c, kernel_sz) ==
    << conv_act(cfg, in_c, mid_c, kernel_sz[1], cfg.norm, None),
       conv_act(cfg, mid_c, out_c, kernel_sz[2], cfg.norm, None) >>

\* a finishing convolution that always carries a bias
final_conv_biased(cfg, in_c) == [conv(cfg, in_c, 1, 1, None) EXCEPT !.bias = TRUE]

\* Unet.__final_conv
final_conv(cfg, in_c) == conv(cfg, in_c, 1, 1, None)

start_block(cfg) == dbl_conv_act(cfg, 1, lc(cfg, 0), lc(cfg, 1), <<NoneK, NoneK>>)

down_layers_list(cfg) ==
    LET ns == Range(1, cfg.n_layers)
    IN  [k \in 1..Len(ns) |->
            dbl_conv_act(cfg, lc(cfg, ns[k]), lc(cfg, ns[k]), lc(cfg, ns[k] + 1),
                         <<NoneK, NoneK>>)]

bridge_block(cfg) ==
    dbl_conv_act(cfg, lc(cfg, cfg.n_layers), lc(cfg, cfg.n_layers),
                 lc(cfg, cfg.n_layers + 1), <<NoneK, NoneK>>)

\* the expanding blocks built over range(2, n_layers+2), like upconv
up_layers_list_from2(cfg) ==
    LET ns == Reversed(Range(2, cfg.n_layers + 2))
    IN  [k \in 1..Len(ns) |->
            dbl_conv_act(cfg, lc(cfg, ns[k]) + lc(cfg, ns[k] - 1), lc(cfg, ns[k] - 1),
                         lc(cfg, ns[k] - 1),
                         <<cfg.kernel_sz + cfg.a2u, cfg.kernel_sz>>)]

up_layers_list(cfg) ==
    LET ns == Reversed(Range(3, cfg.n_layers + 2))
    IN  [k \in 1..Len(ns) |->
            dbl_conv_act(cfg, lc(cfg, ns[k]) + lc(cfg, ns[k] - 1), lc(cfg, ns[k] - 1),
                         lc(cfg, ns[k] - 1),
                         <<cfg.kernel_sz + cfg.a2u, cfg.kernel_sz>>)]

\* a finishing block sized for lc(1) + lc(0) input channels
finish_block_first_layer(cfg) == final_conv(cfg, lc(cfg, 1) + lc(cfg, 0))

finish_block(cfg) == final_conv(cfg, lc(cfg, 2) + lc(cfg, 1))

upsampconvs_list(cfg) ==
    LET ns == Reversed(Range(2, cfg.n_layers + 2))
    IN  [k \in 1..Len(ns) |-> conv(cfg, lc(cfg, ns[k]), lc(cfg, ns[k]), 3, None)]

downconv_list(cfg) ==
    LET ns == Range(1, cfg.n_layers + 1)
    IN  [k \in 1..Len(ns) |->
            conv_act(cfg, lc(cfg, ns[k]), lc(cfg, ns[k]), NoneK, cfg.norm, "down")]

\* the transpose convolutions built with the network's kernel size, not 2
upconv_list_default_kernel(cfg) ==
    LET ns == Reversed(Range(2, cfg.n_layers + 2))
    IN  [k \in 1..Len(ns) |->
            conv_act(cfg, lc(cfg, ns[k]), lc(cfg, ns[k]), NoneK, cfg.norm, "up")]

upconv_list(cfg) ==
    LET ns == Reversed(Range(2, cfg.n_layers + 2))
    IN  [k \in 1..Len(ns) |->
            conv_act(cfg, lc(cfg, ns[k]), lc(cfg, ns[k]), 2, cfg.norm, "up")]

\* the instance parameters __init__ stores
InstanceParams(a) ==
    [n_layers |-> a.n_layers, kernel_sz |-> a.kernel_size,
     channel_base_power |-> a.channel_base_power,
     a2u |-> IF Truthy(a.add_two_up) THEN 2 ELSE 0,
     norm |-> a.normalization, is_3d |-> a.net3d, deconv |-> a.deconv,
     upsampconv |-> a.upsampconv]

\* the object __init__ builds; an attribute that is never assigned is <<>>
Unet(a) ==
    LET cfg == InstanceParams(a)
    IN  [cfg |-> cfg,
         start |-> start_block(cfg),
         down_layers |-> down_layers_list(cfg),
         bridge |-> bridge_block(cfg),
         up_layers |-> up_layers_list(cfg),
         finish |-> finish_block(cfg),
         upsampconvs |-> IF Truthy(cfg.upsampconv) THEN upsampconvs_list(cfg) ELSE <<>>,
         downconv |-> IF Truthy(cfg.deconv) THEN downconv_list(cfg) ELSE <<>>,
         upconv |-> IF Truthy(cfg.deconv) THEN upconv_list(cfg) ELSE <<>>]

\* every primitive convolution a Unet owns, as (block name, convolution) pairs
ConvsOfDbl(name, b) == {<<name, b[1].c>>, <<name, b[2].c>>}
ConvsOf(net) ==
    ConvsOfDbl("start", net.start) \cup ConvsOfDbl("bridge", net.bridge)
    \cup UNION {ConvsOfDbl("down_layers", net.down_layers[k]) : k \in DOMAIN net.down_layers}
    \cup UNION {ConvsOfDbl("up_layers", net.up_layers[k]) : k \in DOMAIN net.up_layers}
    \cup {<<"finish", net.finish>>}
    \cup {<<"upsampconvs", net.upsampconvs[k]>> : k \in DOMAIN net.upsampconvs}
    \cup {<<"downconv", net.downconv[k].c>> : k \in DOMAIN net.downconv}
    \cup {<<"upconv", net.upconv[k].c>> : k \in DOMAIN net.upconv}

\* __init__ raises when some __conv call raised
InitRaises(net) == \E p \in ConvsOf(net) : p[2].op = "SynthNNError"

\* ------------------------------------------------------------ applying blocks
\* output size of one spatial dimension; 0 stands for an input the library
\* rejects: ReflectionPad2d needs a padding smaller than the input, and the
\* padded input must not be smaller than the kernel
conv_out(c, s) ==
    IF c.op = "convT"
    THEN (s - 1) * c.stride + c.ksz
    ELSE IF (c.padding = "reflection" /\ c.pad >= s) \/ s + 2 * c.pad < c.ksz
         THEN 0
         ELSE ((s + 2 * c.pad - c.ksz) \div c.stride) + 1

\* nn.Sequential(padding, convolution) applied to t
apply_conv(c, t) ==
    IF ~t.ok \/ t.c # c.in_c \/ \E k \in DOMAIN t.sp : conv_out(c, t.sp[k]) < 1
    THEN Raised
    ELSE Tensor(t.n, c.out_c, [k \in DOMAIN t.sp |-> conv_out(c, t.sp[k])])

\* normalization, activation and dropout keep the shape
apply_conv_act(b, t) == apply_conv(b.c, t)

apply_dbl_conv_act(b, t) == apply_conv_act(b[2], apply_conv_act(b[1], t))

\* F.max_pool3d(x, (2,2,2)) / F.max_pool2d(x, (2,2))
max_pool(t) ==
    IF ~t.ok \/ \E k \in DOMAIN t.sp : t.sp[k] \div 2 < 1
    THEN Raised
    ELSE Tensor(t.n, t.c, [k \in DOMAIN t.sp |-> t.sp[k] \div 2])

\* F.interpolate(x, size=sz)
interpolate(t, sz) ==
    IF ~t.ok \/ Len(sz) # Len(t.sp) THEN Raised ELSE Tensor(t.n, t.c, sz)

\* torch.cat((a, b), dim=1)
cat(a, b) ==
    IF ~a.ok \/ ~b.ok \/ a.n # b.n \/ a.sp # b.sp
    THEN Raised
    ELSE Tensor(a.n, a.c + b.c, a.sp)

\* __up interpolating by a fixed scale factor of 2 instead of to the size sz
up_scale_factor(net, t, sz, i) ==
    IF ~Truthy(net.cfg.deconv)
    THEN interpolate(t, [k \in DOMAIN t.sp |-> 2 * t.sp[k]])
    ELSE IF InRange(net.upconv, i) THEN apply_conv_act(At(net.upconv, i), t) ELSE Raised

\* Unet.__up
up(net, t, sz, i) ==
    IF ~Truthy(net.cfg.deconv)
    THEN interpolate(t, sz)
    ELSE IF InRange(net.upconv, i) THEN apply_conv_act(At(net.upconv, i), t) ELSE Raised

\* Unet.__down
down(net, t, i) ==
    IF ~Truthy(net.cfg.deconv)
    THEN max_pool(t)
    ELSE IF InRange(net.downconv, i) THEN apply_conv_act(At(net.downconv, i), t) ELSE Raised

\* --------------------------------------------------------------- the state
VARIABLES
    pc,      \* where main (and, during fit, forward) stands
    args,    \* the options main read: the command line or the JSON file
    model,   \* the Unet main constructed
    x,       \* forward's local x
    dout,    \* forward's list of recorded activations
    i,       \* forward's loop counter
    inp,     \* the batch forward was called with
    ops,     \* the operations forward has applied so far, in order
    steps,   \* the steps of main that have run, in order
    ret      \* what main returned: "none" until it returns

vars == <<pc, args, model, x, dout, i, inp, ops, steps, ret>>

NoArgs == [made |-> FALSE]
NoModel == [made |-> FALSE]

\* the options that reach Unet: a JSON configuration file may hold any value
\* for "deconv", the command line only true or false
Options ==
    [n_layers : 1..MaxL, kernel_size : 1..MaxK, channel_base_power : 0..MaxCBP,
     add_two_up : {"True", "False"}, normalization : {"instance", "batch", "none"},
     net3d : {"True", "False"}, deconv : {"True", "False", "invalid"},
     upsampconv : {"True", "False"}]

\* the spatial shapes of the batches the data bunch yields: get_slice gives a
\* 2d network slices of the images (the two axes are treated alike, so the
\* shapes are taken up to their order), get_patch3d(ps=args.patch_size) gives
\* a 3d network cubes of side patch_size
Shapes(net3d) ==
    IF Truthy(net3d)
    THEN {<<ps, ps, ps>> : ps \in 1..MaxS}
    ELSE {sp \in [1..2 -> 1..MaxS] : sp[1] <= sp[2]}

\* one entry of ops: block index i, index j into dout of the recorded activation
\* read (-1 when none is), the tensor x passed in, the recorded activation d read
Op(name, idx, j, t, d) == [op |-> name, i |-> idx, j |-> j, x |-> t, d |-> d]

\* one statement x = f(...) of forward: nothing runs after a statement raised
Step(f, e, y) ==
    IF f.x.ok THEN [f EXCEPT !.x = y, !.ops = Append(@, e)] ELSE f
\* dout = [x] / dout.append(x)
Record(f) ==
    IF f.x.ok THEN [f EXCEPT !.dout = Append(@, f.x)] ELSE f

Frame == [x |-> x, dout |-> dout, ops |-> ops]

\* forward, lines 104-106
fwd_start(net, f) ==
    LET f1 == Record(Step(f, Op("start", 0, -1, f.x, NoTensor),
                          apply_dbl_conv_act(net.start, f.x)))
    IN  Step(f1, Op("down", 0, Len(f1.dout) - 1, FromEnd(f1.dout, 1), NoTensor),
             down(net, FromEnd(f1.dout, 1), 0))

\* the contracting loop downsampling with the block of the depth above
fwd_down_layer_shared(net, f, k) ==
    LET f1 == Record(Step(f, Op("down_layer", k - 1, -1, f.x, NoTensor),
                          apply_dbl_conv_act(At(net.down_layers, k - 1), f.x)))
    IN  Step(f1, Op("down", k - 1, Len(f1.dout) - 1, FromEnd(f1.dout, 1), NoTensor),
             down(net, FromEnd(f1.dout, 1), k - 1))

\* forward, lines 107-109: one iteration, dl = down_layers[k - 1]
fwd_down_layer(net, f, k) ==
    LET f1 == Record(Step(f, Op("down_layer", k - 1, -1, f.x, NoTensor),
                          apply_dbl_conv_act(At(net.down_layers, k - 1), f.x)))
    IN  Step(f1, Op("down", k, Len(f1.dout) - 1, FromEnd(f1.dout, 1), NoTensor),
             down(net, FromEnd(f1.dout, 1), k))

\* forward, line 110
fwd_bridge(net, f) ==
    LET f1 == Step(f, Op("bridge", 0, -1, f.x, NoTensor),
                   apply_dbl_conv_act(net.bridge, f.x))
    IN  Step(f1, Op("up", 0, Len(f1.dout) - 1, f1.x, FromEnd(f1.dout, 1)),
             up(net, f1.x, FromEnd(f1.dout, 1).sp, 0))

\* the loop zipping up_layers with dout instead of reversed(dout)
fwd_up_layer_unreversed(net, f, k) ==
    LET n  == Len(f.dout)
        d  == f.dout[k]
        f1 == Step(f, Op("cat", -1, k - 1, f.x, d), cat(f.x, d))
        f2 == Step(f1, Op("up_layer", k - 1, -1, f1.x, NoTensor),
                   apply_dbl_conv_act(At(net.up_layers, k - 1), f1.x))
        f3 == IF k + 1 <= n
              THEN Step(f2, Op("up", k, n - k - 1, f2.x, FromEnd(f2.dout, k + 1)),
                        up(net, f2.x, FromEnd(f2.dout, k + 1).sp, k))
              ELSE Step(f2, Op("up", k, n - k - 1, f2.x, NoTensor), Raised)
    IN  IF Truthy(net.cfg.upsampconv)
        THEN Step(f3, Op("upsampconv", k, -1, f3.x, NoTensor),
                  IF InRange(net.upsampconvs, k)
                  THEN apply_conv(At(net.upsampconvs, k), f3.x) ELSE Raised)
        ELSE f3

\* the loop with no upsampling after the last expanding block
fwd_up_layer_no_last_up(net, f, k) ==
    LET n  == Len(f.dout)
        d  == Reversed(f.dout)[k]
        f1 == Step(f, Op("cat", -1, n - k, f.x, d), cat(f.x, d))
        f2 == Step(f1, Op("up_layer", k - 1, -1, f1.x, NoTensor),
                   apply_dbl_conv_act(At(net.up_layers, k - 1), f1.x))
        f3 == IF k + 1 < n
              THEN Step(f2, Op("up", k, n - k - 1, f2.x, FromEnd(f2.dout, k + 1)),
                        up(net, f2.x, FromEnd(f2.dout, k + 1).sp, k))
              ELSE f2
    IN  IF Truthy(net.cfg.upsampconv)
        THEN Step(f3, Op("upsampconv", k, -1, f3.x, NoTensor),
                  IF InRange(net.upsampconvs, k)
                  THEN apply_conv(At(net.upsampconvs, k), f3.x) ELSE Raised)
        ELSE f3

\* forward, lines 111-115: one iteration, (ul, d) the k-th pair of
\* zip(up_layers, reversed(dout))
fwd_up_layer(net, f, k) ==
    LET n  == Len(f.dout)
        d  == Reversed(f.dout)[k]
        f1 == Step(f, Op("cat", -1, n - k, f.x, d), cat(f.x, d))
        f2 == Step(f1, Op("up_layer", k - 1, -1, f1.x, NoTensor),
                   apply_dbl_conv_act(At(net.up_layers, k - 1), f1.x))
        f3 == IF k + 1 <= n
              THEN Step(f2, Op("up", k, n - k - 1, f2.x, FromEnd(f2.dout, k + 1)),
                        up(net, f2.x, FromEnd(f2.dout, k + 1).sp, k))
              ELSE Step(f2, Op("up", k, n - k - 1, f2.x, NoTensor), Raised)
    IN  IF Truthy(net.cfg.upsampconv)
        THEN Step(f3, Op("upsampconv", k, -1, f3.x, NoTensor),
                  IF InRange(net.upsampconvs, k)
                  THEN apply_conv(At(net.upsampconvs, k), f3.x) ELSE Raised)
        ELSE f3

\* forward, lines 116-117
fwd_finish(net, f) ==
    LET f1 == Step(f, Op("cat", -1, 0, f.x, At(f.dout, 0)), cat(f.x, At(f.dout, 0)))
    IN  Step(f1, Op("finish", 0, -1, f1.x, NoTensor), apply_conv(net.finish, f1.x))

\* the number of pairs zip(up_layers, reversed(dout)) yields
ZipLen(net, d) == IF Len(net.up_layers) < Len(d) THEN Len(net.up_layers) ELSE Len(d)

\* ------------------------------------------------------------------ main
\* how a step that leaves the core can end: it returns, it raises an Exception,
\* or it raises a BaseException that is no Exception (KeyboardInterrupt, SystemExit)
Outcomes == {"ok", "Exception", "BaseException"}

Done(step, outcome) == Append(steps, [step |-> step, outcome |-> outcome])

\* a handler that swallows the Exception and lets main go on
After_swallow(outcome, next) ==
    IF outcome = "BaseException" THEN "propagated" ELSE next

\* where control goes from a step inside main's try block
After(outcome, next) ==
    IF outcome = "ok" THEN next
    ELSE IF outcome = "Exception" THEN "except" ELSE "propagated"

Init ==
    /\ pc = "main"
    /\ args = NoArgs
    /\ model = NoModel
    /\ x = NoTensor
    /\ dout = <<>>
    /\ i = 0
    /\ inp = NoTensor
    /\ ops = <<>>
    /\ steps = <<>>
    /\ ret = "none"

\* main, lines 131-146: parse the command line or load the JSON file, set up
\* logging; all of it before the try block
ReadArgs ==
    /\ pc = "main"
    /\ \E a \in Options, outcome \in Outcomes :
          /\ args' = IF outcome = "ok" THEN a ELSE NoArgs
          /\ pc' = IF outcome = "ok" THEN "construct" ELSE "propagated"
          /\ steps' = Done("read_args", outcome)
    /\ UNCHANGED <<model, x, dout, i, inp, ops, ret>>

\* main, lines 150-155: model = Unet(...)
Construct ==
    /\ pc = "construct"
    /\ LET net == Unet(args)
           outcome == IF InitRaises(net) THEN "Exception" ELSE "ok"
       IN  /\ model' = IF outcome = "ok" THEN net ELSE NoModel
           /\ pc' = After(outcome, "setup")
           /\ steps' = Done("construct", outcome)
    /\ UNCHANGED <<args, x, dout, i, inp, ops, ret>>

\* main, lines 157-184: device, transforms, data bunch, loss
Setup ==
    /\ pc = "setup"
    /\ \E outcome \in Outcomes :
          /\ pc' = After(outcome, "metrics")
          /\ steps' = Done("setup", outcome)
    /\ UNCHANGED <<args, model, x, dout, i, inp, ops, ret>>

\* main, lines 186-201: the metrics; an ImportError is handled here
Metrics ==
    /\ pc = "metrics"
    /\ \E outcome \in Outcomes \cup {"ImportError"} :
          /\ pc' = IF outcome = "ImportError" THEN "learner" ELSE After(outcome, "learner")
          /\ steps' = Done("metrics", IF outcome = "ImportError" THEN "ok" ELSE outcome)
    /\ UNCHANGED <<args, model, x, dout, i, inp, ops, ret>>

\* main, lines 203-215: the learner, data parallelism, fp16, the CSV logger
Learner ==
    /\ pc = "learner"
    /\ \E outcome \in Outcomes :
          /\ pc' = After(outcome, "fit")
          /\ steps' = Done("learner", outcome)
    /\ UNCHANGED <<args, model, x, dout, i, inp, ops, ret>>

\* main, lines 216-219: learner.fit calls model.forward on a batch
Fit ==
    /\ pc = "fit"
    /\ \E sp \in Shapes(args.net3d) :
          /\ inp' = Tensor(BatchSize, 1, sp)
          /\ x' = Tensor(BatchSize, 1, sp)
    /\ pc' = "fwd_start"
    /\ dout' = <<>>
    /\ ops' = <<>>
    /\ UNCHANGED <<args, model, i, steps, ret>>

\* what a statement group of forward leaves behind; an exception in forward
\* leaves fit and reaches main's handler
Forward(f, next, k) ==
    /\ x' = f.x
    /\ dout' = f.dout
    /\ ops' = f.ops
    /\ i' = k
    /\ pc' = IF f.x.ok THEN next ELSE "except"
    /\ steps' = IF f.x.ok THEN steps ELSE Done("fit", "Exception")
    /\ UNCHANGED <<args, model, inp, ret>>

FwdStart ==
    /\ pc = "fwd_start"
    /\ Forward(fwd_start(model, Frame), "fwd_down", 1)

FwdDownLayer ==
    /\ pc = "fwd_down"
    /\ i <= Len(model.down_layers)
    /\ Forward(fwd_down_layer(model, Frame, i), "fwd_down", i + 1)

FwdBridge ==
    /\ pc = "fwd_down"
    /\ i > Len(model.down_layers)
    /\ Forward(fwd_bridge(model, Frame), "fwd_up", 1)

FwdUpLayer ==
    /\ pc = "fwd_up"
    /\ i <= ZipLen(model, dout)
    /\ Forward(fwd_up_layer(model, Frame, i), "fwd_up", i + 1)

FwdFinish ==
    /\ pc = "fwd_up"
    /\ i > ZipLen(model, dout)
    /\ Forward(fwd_finish(model, Frame), "fwd_return", i)

\* the rest of fit once forward returned: loss, backward, optimizer, CSV log;
\* the batch and forward's locals are gone when fit is left
FitReturn ==
    /\ pc = "fwd_return"
    /\ \E outcome \in Outcomes :
          /\ pc' = After(outcome, "config")
          /\ steps' = Done("fit", outcome)
    /\ x' = NoTensor /\ dout' = <<>> /\ i' = 0 /\ inp' = NoTensor /\ ops' = <<>>
    /\ UNCHANGED <<args, model, ret>>

\* main, lines 222-232: skipped when args.out_config_file is None
WriteConfig ==
    /\ pc = "config"
    /\ \E wanted \in BOOLEAN, outcome \in Outcomes :
          IF wanted
          THEN pc' = After(outcome, "save") /\ steps' = Done("config", outcome)
          ELSE pc' = "save" /\ steps' = steps
    /\ UNCHANGED <<args, model, x, dout, i, inp, ops, ret>>

\* main, line 235
Save ==
    /\ pc = "save"
    /\ \E outcome \in Outcomes :
          /\ pc' = After(outcome, "plot")
          /\ steps' = Done("save", outcome)
    /\ UNCHANGED <<args, model, x, dout, i, inp, ops, ret>>

\* main, lines 238-242: skipped when args.plot_loss is None
Plot ==
    /\ pc = "plot"
    /\ \E wanted \in BOOLEAN, outcome \in Outcomes :
          IF wanted
          THEN pc' = After(outcome, "return") /\ steps' = Done("plot", outcome)
          ELSE pc' = "return" /\ steps' = steps
    /\ UNCHANGED <<args, model, x, dout, i, inp, ops, ret>>

\* main, line 244
Return ==
    /\ pc = "return"
    /\ ret' = "0"
    /\ pc' = "done"
    /\ UNCHANGED <<args, model, x, dout, i, inp, ops, steps>>

\* main, lines 245-247
Except ==
    /\ pc = "except"
    /\ ret' = "1"
    /\ pc' = "done"
    /\ UNCHANGED <<args, model, x, dout, i, inp, ops, steps>>

Next ==
    \/ ReadArgs \/ Construct \/ Setup \/ Metrics \/ Learner \/ Fit
    \/ FwdStart \/ FwdDownLayer \/ FwdBridge \/ FwdUpLayer \/ FwdFinish
    \/ FitReturn \/ WriteConfig \/ Save \/ Plot \/ Return \/ Except

Spec == Init /\ [][Next]_vars

\* ------------------------------------------------------------------ claims
HasModel == model # NoModel
Constructed == pc \notin {"main", "construct"} /\ args # NoArgs
\* forward returned its result x
Returned == pc = "fwd_return"
OpsAt(name) == {k \in DOMAIN ops : ops[k].op = name}

\* C2: for n_layers L >= 2 a constructed Unet owns exactly L-1 contracting
\* blocks and exactly L-1 expanding blocks, so the two counts are equal.
C2_BlockCounts ==
    (HasModel /\ model.cfg.n_layers >= 2) =>
        /\ Len(model.down_layers) = model.cfg.n_layers - 1
        /\ Len(model.up_layers) = model.cfg.n_layers - 1
        /\ Len(model.down_layers) = Len(model.up_layers)
        /\ Len(model.start) = 2 /\ Len(model.bridge) = 2 /\ model.finish.out_c = 1

C2_Witness ==
    /\ HasModel /\ model.cfg.n_layers = MaxL
    /\ Len(model.down_layers) = MaxL - 1 /\ Len(model.up_layers) = MaxL - 1

\* C3 as claimed: the activation recorded at contracting depth n, d[n], has
\* exactly 2^(channel_base_power + n) channels.
C3_Original ==
    HasModel =>
        \A n \in 0..(Len(dout) - 1) :
            At(dout, n).c = Pow2(model.cfg.channel_base_power + n)

\* C3 amended: d[n] has exactly 2^(channel_base_power + n + 1) channels,
\* strictly increasing in n; 2^channel_base_power is the channel count of the
\* first convolution of the start block.
C3_RecordedChannels ==
    HasModel =>
        /\ model.start[1].c.out_c = Pow2(model.cfg.channel_base_power)
        /\ \A n \in 0..(Len(dout) - 1) :
              At(dout, n).c = Pow2(model.cfg.channel_base_power + n + 1)
        /\ \A n \in 1..(Len(dout) - 1) : At(dout, n).c > At(dout, n - 1).c

C3_Witness ==
    Returned /\ Len(dout) = MaxL /\ model.cfg.channel_base_power = MaxCBP

\* C5 as claimed: constructing a Unet with the unrecognized value "invalid"
\* for the resampling strategy raises SynthNNError during construction and
\* produces no Unet.
C5_Original ==
    (Constructed /\ args.deconv = "invalid") =>
        (~HasModel /\ steps[Len(steps)] = [step |-> "construct", outcome |-> "Exception"])

\* C5 amended: construction raises no SynthNNError for any value of the
\* resampling strategy option: the option is used for its truth value only, so
\* "invalid" builds the strided-convolution network (n_layers downconv and
\* n_layers upconv blocks), as True does; every mode __init__ passes to __conv
\* is one __conv accepts.
C5_StrategyByTruthValue ==
    Constructed =>
        /\ HasModel
        /\ steps[2] = [step |-> "construct", outcome |-> "ok"]
        /\ ~InitRaises(model)
        /\ Len(model.downconv) = (IF args.deconv = "False" THEN 0 ELSE args.n_layers)
        /\ Len(model.upconv) = (IF args.deconv = "False" THEN 0 ELSE args.n_layers)

C5_Witness ==
    /\ Constructed /\ args.deconv = "invalid" /\ HasModel
    /\ Len(model.downconv) = args.n_layers /\ Returned

\* C8: every convolution built by __conv, in every mode and for every block
\* including the finishing 1x1 convolution and the resize-convolutions, has a
\* bias term if and only if the configured normalization is 'none'.
C8_BiasIffNoNorm ==
    HasModel =>
        \A p \in ConvsOf(model) : p[2].bias <=> (args.normalization = "none")

C8_Witness ==
    /\ HasModel /\ args.normalization = "none"
    /\ \A name \in {"start", "down_layers", "bridge", "up_layers", "finish",
                    "upsampconvs", "downconv", "upconv"} :
          \E p \in ConvsOf(model) : p[1] = name /\ p[2].bias

\* C1 as claimed: for an input whose spatial dimensions are all divisible by
\* 2^n_layers, forward returns a tensor of shape [B, 1, *S]: one channel and
\* the spatial extent of the input, for every kernel size, even ones included.
C1_Original ==
    (Returned /\ \A k \in DOMAIN inp.sp : inp.sp[k] % Pow2(model.cfg.n_layers) = 0) =>
        x = Tensor(inp.n, 1, inp.sp)

\* C4: the i-th expanding block receives, concatenated with the current
\* activation, exactly the recorded activation d[L-i]; d[0] goes to the
\* finishing block only; no recorded activation is concatenated twice, and
\* once forward has returned none is left unused.
C4_SkipConnections ==
    HasModel =>
        /\ \A k \in OpsAt("up_layer") :
              /\ k > 1 /\ ops[k - 1].op = "cat"
              /\ ops[k - 1].j = model.cfg.n_layers - (ops[k].i + 1)
              /\ ops[k - 1].j >= 1
              /\ ops[k - 1].d = At(dout, ops[k - 1].j)
        /\ \A k \in OpsAt("finish") :
              /\ k > 1 /\ ops[k - 1].op = "cat" /\ ops[k - 1].j = 0
              /\ ops[k - 1].d = At(dout, 0)
        /\ \A k \in OpsAt("cat") :
              k < Len(ops) => ops[k + 1].op \in {"up_layer", "finish"}
        /\ \A k1, k2 \in OpsAt("cat") : ops[k1].j = ops[k2].j => k1 = k2
        /\ \A k1, k2 \in OpsAt("up_layer") : ops[k1].i = ops[k2].i => k1 = k2
        /\ Returned =>
              /\ {ops[k].j : k \in OpsAt("cat")} = 0..(model.cfg.n_layers - 1)
              /\ {ops[k].i : k \in OpsAt("up_layer")} = 0..(model.cfg.n_layers - 2)

C4_Witness ==
    /\ Returned /\ model.cfg.n_layers = MaxL
    /\ Cardinality(OpsAt("cat")) = MaxL

\* C6 as claimed: with upsampconv set, every upsampling step of a forward pass,
\* the first one included, is immediately followed by one resize-convolution,
\* so as many resize-convolutions as upsampling steps are applied and every
\* allocated resize-convolution block is used.
C6_Original ==
    (HasModel /\ Truthy(model.cfg.upsampconv)) =>
        /\ \A k \in OpsAt("up") : k < Len(ops) => ops[k + 1].op = "upsampconv"
        /\ Returned =>
              /\ Cardinality(OpsAt("upsampconv")) = Cardinality(OpsAt("up"))
              /\ {ops[k].i : k \in OpsAt("upsampconv")} = 0..(Len(model.upsampconvs) - 1)

\* C7 as claimed: main returns 1 whenever any step of main fails, reading the
\* arguments or the JSON file included, and returns 0 otherwise.
C7_Original ==
    pc \in {"done", "propagated"} =>
        IF \A k \in DOMAIN steps : steps[k].outcome = "ok"
        THEN ret = "0" ELSE ret = "1"

\* C7 amended: main returns 0 only when construction, data setup, training and
\* model saving (and config writing and plotting when asked for) all succeeded;
\* it returns 1 whenever a step inside its try block raises an Exception; a
\* failure while reading the arguments or the JSON file (before the try block)
\* and an exception that is no Exception leave main with no return value; after
\* a failure no later step runs and no step is retried.
C7_ExitCodes ==
    LET n == Len(steps)
        names == {steps[k].step : k \in DOMAIN steps}
    IN  /\ \A k \in DOMAIN steps : steps[k].outcome # "ok" => k = n
        /\ \A k1, k2 \in DOMAIN steps : steps[k1].step = steps[k2].step => k1 = k2
        /\ ret = "0" =>
              /\ \A k \in DOMAIN steps : steps[k].outcome = "ok"
              /\ {"read_args", "construct", "setup", "metrics", "learner", "fit", "save"}
                    \subseteq names
        /\ ret = "1" =>
              n > 0 /\ steps[n].outcome = "Exception" /\ steps[n].step # "read_args"
        /\ (n > 0 /\ steps[n].outcome = "Exception" /\ steps[n].step # "read_args") =>
              (pc = "except" \/ (pc = "done" /\ ret = "1"))
        /\ pc = "propagated" =>
              /\ ret = "none"
              /\ steps[n].outcome # "ok"
              /\ steps[n].step = "read_args" \/ steps[n].outcome = "BaseException"
        /\ pc = "done" <=> ret # "none"

C7_Witness ==
    /\ ret = "1" /\ steps[Len(steps)] = [step |-> "plot", outcome |-> "Exception"]
    /\ \E k \in DOMAIN steps : steps[k] = [step |-> "save", outcome |-> "ok"]

\* C9 as claimed: after the last expanding block no further upsampling is
\* performed, so one forward pass performs n_layers - 1 upsampling operations.
C9_Original ==
    Returned =>
        /\ Cardinality(OpsAt("up")) = model.cfg.n_layers - 1
        /\ \A k \in OpsAt("up") : \E m \in OpsAt("up_layer") : m > k

\* C9 amended: every expanding block, the last included, is followed by an
\* upsampling step, as the bridge is; the last one upsamples towards d[0], and
\* its result (after the resize-convolution when upsampconv is set) is what is
\* concatenated with d[0] for the finishing block; a forward pass that reaches
\* the finishing block has performed n_layers upsampling operations.
C9_UpsamplingCount ==
    HasModel =>
        /\ \A k \in OpsAt("bridge") :
              k < Len(ops) => ops[k + 1].op = "up" /\ ops[k + 1].i = 0
        /\ \A k \in OpsAt("up_layer") :
              k < Len(ops) => ops[k + 1].op = "up" /\ ops[k + 1].i = ops[k].i + 1
        /\ \A k \in OpsAt("finish") :
              /\ Cardinality(OpsAt("up")) = model.cfg.n_layers
              /\ k > 2 /\ ops[k - 2].op \in {"up", "upsampconv"}
              /\ \E m \in OpsAt("up") :
                    ops[m].j = 0 /\ \A m2 \in OpsAt("up") : m2 <= m

C9_Witness ==
    /\ Returned /\ model.cfg.n_layers = MaxL
    /\ Cardinality(OpsAt("up")) = MaxL

\* C10: under the pooling/interpolation strategy every upsampling step resizes
\* to the spatial shape of exactly the recorded activation that is concatenated
\* next, so the two operands of every concatenation in forward have identical
\* spatial shapes, also for input sizes not divisible by 2^n_layers.
C10_InterpolationMatchesSkip ==
    (HasModel /\ ~Truthy(model.cfg.deconv)) =>
        /\ \A k \in OpsAt("cat") : ops[k].x.sp = ops[k].d.sp
        /\ \A k \in OpsAt("up") :
              /\ ops[k].d = At(dout, ops[k].j)
              /\ k < Len(ops) => ops[k + 1].x.sp = ops[k].d.sp
              /\ \A m \in OpsAt("cat") :
                    (m > k /\ \A m2 \in OpsAt("cat") : m2 > k => m2 >= m)
                        => ops[m].j = ops[k].j /\ ops[m].d = ops[k].d

C10_Witness ==
    /\ Returned /\ ~Truthy(model.cfg.deconv) /\ model.cfg.n_layers >= 2
    /\ \A k \in DOMAIN inp.sp : inp.sp[k] >= Pow2(model.cfg.n_layers)
    /\ \E k \in DOMAIN inp.sp : inp.sp[k] % Pow2(model.cfg.n_layers) # 0
    /\ x.sp = At(dout, 0).sp

\* C11: under the strided-convolution strategy the network owns exactly
\* n_layers downsampling and n_layers upsampling sub-blocks; the k-th
\* downsampling step of a forward pass uses downconv[k] and the k-th
\* upsampling step uses upconv[k], so no sub-block serves two depths, and a
\* pass that reaches the finishing block has used every one of them once.
C11_OwnResamplingBlocks ==
    (HasModel /\ Truthy(model.cfg.deconv)) =>
        /\ Len(model.downconv) = model.cfg.n_layers
        /\ Len(model.upconv) = model.cfg.n_layers
        /\ \A k \in OpsAt("down") :
              /\ InRange(model.downconv, ops[k].i)
              /\ ops[k].i = Cardinality({m \in OpsAt("down") : m < k})
              /\ k < Len(ops) =>
                    ops[k + 1].x = apply_conv_act(At(model.downconv, ops[k].i), ops[k].x)
        /\ \A k \in OpsAt("up") :
              /\ InRange(model.upconv, ops[k].i)
              /\ ops[k].i = Cardinality({m \in OpsAt("up") : m < k})
              /\ k < Len(ops) =>
                    ops[k + 1].x = apply_conv_act(At(model.upconv, ops[k].i), ops[k].x)
        /\ OpsAt("finish") # {} =>
              /\ {ops[k].i : k \in OpsAt("down")} = 0..(model.cfg.n_layers - 1)
              /\ {ops[k].i : k \in OpsAt("up")} = 0..(model.cfg.n_layers - 1)
              /\ Cardinality(OpsAt("down")) = model.cfg.n_layers
              /\ Cardinality(OpsAt("up")) = model.cfg.n_layers

C11_Witness ==
    /\ Returned /\ Truthy(model.cfg.deconv) /\ model.cfg.n_layers = MaxL
    /\ Cardinality(OpsAt("down")) = MaxL /\ Cardinality(OpsAt("up")) = MaxL

\* the list an entry of ops indexes (<<>> when the call indexes none), and the
\* input-channel count the block it applies was constructed with (-1 when the
\* call applies no block: pooling, interpolation, concatenation)
ListOf(e) ==
    IF e.op = "down_layer" THEN model.down_layers
    ELSE IF e.op = "up_layer" THEN model.up_layers
    ELSE IF e.op = "upsampconv" THEN model.upsampconvs
    ELSE IF e.op = "down" /\ Truthy(model.cfg.deconv) THEN model.downconv
    ELSE IF e.op = "up" /\ Truthy(model.cfg.deconv) THEN model.upconv
    ELSE <<>>
IndexesList(e) ==
    \/ e.op \in {"down_layer", "up_layer", "upsampconv"}
    \/ e.op \in {"down", "up"} /\ Truthy(model.cfg.deconv)
BlockInC(e) ==
    IF e.op = "start" THEN model.start[1].c.in_c
    ELSE IF e.op = "bridge" THEN model.bridge[1].c.in_c
    ELSE IF e.op = "finish" THEN model.finish.in_c
    ELSE IF e.op \in {"down_layer", "up_layer"} THEN At(ListOf(e), e.i)[1].c.in_c
    ELSE IF e.op = "upsampconv" THEN At(ListOf(e), e.i).in_c
    ELSE IF IndexesList(e) THEN At(ListOf(e), e.i).c.in_c
    ELSE -1

\* C12: for every n_layers, channel_base_power and combination of the deconv
\* and upsampconv flags, every block applied during forward receives a tensor
\* with the input-channel count the block was constructed with, and every
\* index into down_layers, up_layers, downconv, upconv, upsampconvs (and dout)
\* is within the bounds of the list.
C12_ChannelsAndIndices ==
    HasModel =>
        \A k \in DOMAIN ops :
            /\ IndexesList(ops[k]) => InRange(ListOf(ops[k]), ops[k].i)
            /\ ops[k].j # -1 => InRange(dout, ops[k].j)
            /\ BlockInC(ops[k]) # -1 => ops[k].x.c = BlockInC(ops[k])
            /\ ops[k].op = "cat" => ops[k].x.ok /\ ops[k].d.ok

C12_Witness ==
    /\ Returned /\ Truthy(model.cfg.deconv) /\ Truthy(model.cfg.upsampconv)
    /\ model.cfg.n_layers = MaxL /\ model.cfg.channel_base_power = MaxCBP
    /\ \A name \in {"start", "down", "down_layer", "bridge", "up", "cat",
                    "up_layer", "upsampconv", "finish"} : OpsAt(name) # {}

\* forward raised: main's handler is reached with forward's calls on record
ForwardRaised == pc = "except" /\ ops # <<>>
Divisible == \A d \in DOMAIN inp.sp : inp.sp[d] % Pow2(model.cfg.n_layers) = 0
StridedOddKernel ==
    HasModel /\ Truthy(model.cfg.deconv) /\ model.cfg.kernel_sz % 2 = 1
Halved(sp) == [d \in DOMAIN sp |-> (sp[d] + 1) \div 2]
Doubled(sp) == [d \in DOMAIN sp |-> 2 * sp[d]]
\* no padding of a 2d network meets an activation it rejects: the smallest
\* activation, the bridge's, is larger than kernel_size // 2
PaddingAccepted ==
    \/ Truthy(model.cfg.is_3d)
    \/ \A d \in DOMAIN inp.sp :
          inp.sp[d] \div Pow2(model.cfg.n_layers) > model.cfg.kernel_sz \div 2

====
